---------------------------- MODULE Spec2Model ----------------------------
(***************************************************************************)
(* Model of forecasting-service/main.py (Pythia forecasting service).      *)
(*                                                                         *)
(* Real numbers are modelled exactly, as rationals:                        *)
(*   - a scalar is a record [num, den] in lowest terms (den > 0);          *)
(*   - a data frame is a record [rows, den]: rows is the sequence of       *)
(*     [ds, y] records (ds a day number, y an integer numerator) and den   *)
(*     the denominator shared by the whole 'y' column, in lowest terms.    *)
(* Floating-point rounding of pandas/numpy is not modelled.                *)
(* Timestamps are modelled at day granularity (the code resamples by day). *)
(***************************************************************************)
EXTENDS Integers, Sequences, FiniteSets, TLC

(***************************************************************************)
(* Program constants                                                       *)
(***************************************************************************)
DAYS_TO_FORECAST == 30
FORECAST_HORIZON_DAYS == 30

(***************************************************************************)
(* Exact arithmetic helpers                                                *)
(***************************************************************************)
Abs(x) == IF x < 0 THEN -x ELSE x

Min2(a, b) == IF a <= b THEN a ELSE b

Max2(a, b) == IF a >= b THEN a ELSE b

RECURSIVE Gcd(_, _)
Gcd(a, b) == IF b = 0 THEN Abs(a) ELSE Gcd(b, a % b)

Rat(n, d) ==
    LET g == Gcd(n, d)
    IN  [num |-> n \div g, den |-> d \div g]

RatLt(a, b) == a.num * b.den < b.num * a.den

RatLe(a, b) == a.num * b.den <= b.num * a.den

RatAdd(a, b) == Rat(a.num * b.den + b.num * a.den, a.den * b.den)

\* Sums and gcds over s[lo..hi], by halves (the depth of the recursion stays
\* logarithmic in the length)
RECURSIVE SumRange(_, _, _)
SumRange(s, lo, hi) ==
    IF lo > hi THEN 0
    ELSE IF lo = hi THEN s[lo]
    ELSE SumRange(s, lo, (lo + hi) \div 2) + SumRange(s, ((lo + hi) \div 2) + 1, hi)

SumSeq(s) == SumRange(s, 1, Len(s))

RECURSIVE RatSumRange(_, _, _)
RatSumRange(s, lo, hi) ==
    IF lo > hi THEN Rat(0, 1)
    ELSE IF lo = hi THEN s[lo]
    ELSE RatAdd(RatSumRange(s, lo, (lo + hi) \div 2),
                RatSumRange(s, ((lo + hi) \div 2) + 1, hi))

RatSum(s) == RatSumRange(s, 1, Len(s))

RECURSIVE GcdRange(_, _, _)
GcdRange(s, lo, hi) ==
    IF lo > hi THEN 0
    ELSE IF lo = hi THEN Abs(s[lo])
    ELSE Gcd(GcdRange(s, lo, (lo + hi) \div 2), GcdRange(s, ((lo + hi) \div 2) + 1, hi))

GcdSeq(s, g) == Gcd(GcdRange(s, 1, Len(s)), g)

SeqMax(s) == CHOOSE m \in {s[i] : i \in 1..Len(s)} : \A i \in 1..Len(s) : s[i] <= m

SetMin(S) == CHOOSE m \in S : \A x \in S : m <= x

SetMax(S) == CHOOSE m \in S : \A x \in S : m >= x

\* the sequence s with every element evaluated (a function constructor alone
\* is re-evaluated by TLC at each application)
Eager(s) == s \o <<>>

(***************************************************************************)
(* Data frames                                                             *)
(***************************************************************************)
\* the 'y' column of a frame, as numerators over df.den
Col(df) == Eager([i \in 1..Len(df.rows) |-> df.rows[i].y])

\* a frame with the same dates and the column ys/den, in lowest terms
Frame(rows, ys, den) ==
    LET g == GcdSeq(ys, den)
    IN  [rows |-> Eager([i \in 1..Len(rows) |-> [ds |-> rows[i].ds, y |-> ys[i] \div g]]),
         den  |-> den \div g]

\* Series.quantile(p/100), linear interpolation, as a numerator over 100 * den
Quantile100(ys, p) ==
    LET s   == SortSeq(ys, LAMBDA a, b : a < b)
        pos == (Len(ys) - 1) * p
        lo  == (pos \div 100) + 1
        fr  == pos % 100
    IN  IF fr = 0 THEN 100 * s[lo]
        ELSE 100 * s[lo] + fr * (s[lo + 1] - s[lo])

\* np.clip(y, 0, ub) with y over den and ub over k * den; result over k * den
Clip(ys, k, ub) == Eager([i \in 1..Len(ys) |-> Max2(0, Min2(k * ys[i], ub))])

\* df['y'].median()  (numerator over 100 * den)
Median100(ys) == Quantile100(ys, 50)

(***************************************************************************)
(* Daily aggregation (both fetch paths):                                   *)
(*   events.set_index('ds').resample('D').sum().reset_index()              *)
(* events is the store's answer, ordered by timestamp; one output row per  *)
(* calendar day from the first to the last event, counts summed.           *)
(***************************************************************************)
resample_sum(events) ==
    LET d0 == events[1].timestamp
        d1 == events[Len(events)].timestamp
        Day(i) == events[i].timestamp
        \* the totals of events[lo..hi] for the days Day(lo)..Day(hi), by halves
        RECURSIVE Totals(_, _)
        Totals(lo, hi) ==
            IF lo = hi THEN <<events[lo].count>>
            ELSE LET mid == (lo + hi) \div 2
                     l == Totals(lo, mid)
                     r == Totals(mid + 1, hi)
                 IN  Eager([k \in 1..(Day(hi) - Day(lo) + 1) |->
                         (IF k <= Len(l) THEN l[k] ELSE 0)
                         + (IF Day(lo) + k - 1 >= Day(mid + 1)
                            THEN r[Day(lo) + k - Day(mid + 1)] ELSE 0)])
        tot == Totals(1, Len(events))
    IN  [rows |-> Eager([i \in 1..(d1 - d0 + 1) |-> [ds |-> d0 + i - 1, y |-> tot[i]]]),
         den  |-> 1]

\* df.iloc[:-k] for k > 0
DropLast(df, k) == [df EXCEPT !.rows = SubSeq(df.rows, 1, Len(df.rows) - k)]

(***************************************************************************)
(* Ingestion contamination scan, _generate_forecast_no_cache               *)
(***************************************************************************)
\* median of all days but the last 7 when there are more than 14, else of all
\* (numerator over 100 * den)
historical_baseline(ys) ==
    IF Len(ys) > 14 THEN Median100(SubSeq(ys, 1, Len(ys) - 7))
    ELSE Median100(ys)

days_to_check(ys) == Min2(7, Len(ys) \div 10)

\* df['y'].iloc[-days_to_check:]: a slice from -0 is the whole column
recent_days(ys) ==
    IF days_to_check(ys) = 0 THEN ys
    ELSE SubSeq(ys, Len(ys) - days_to_check(ys) + 1, Len(ys))

\* ratio = v / baseline;  ratio > 10 or ratio < 0.1   (baseline100 > 0)
ExtremeRatio(v, baseline100) ==
    \/ 100 * v > 10 * baseline100
    \/ 1000 * v < baseline100

\* mutant of contaminated_days: the loop does not break at the first normal day
contaminated_days_no_break(recent, baseline100) ==
    LET hits == {i \in 1..Len(recent) :
                    ExtremeRatio(recent[Len(recent) - i + 1], baseline100)}
    IN  IF baseline100 > 0 /\ hits # {} THEN SetMax(hits) ELSE 0

\* the loop of lines 466-473: the length of the run of extreme days at the
\* end of recent, walking backward and stopping at the first normal day
contaminated_days(recent, baseline100) ==
    LET RECURSIVE Walk(_)
        Walk(i) == IF i >= Len(recent) THEN i
                   ELSE IF ExtremeRatio(recent[Len(recent) - i], baseline100)
                        THEN Walk(i + 1)
                        ELSE i
    IN  IF baseline100 > 0 THEN Walk(0) ELSE 0

contamination_scan(df) ==
    LET ys == Col(df)
        k  == contaminated_days(recent_days(ys), historical_baseline(ys))
    IN  IF Len(ys) > 7 /\ k > 0 THEN DropLast(df, k) ELSE df

(***************************************************************************)
(* Secondary outlier cap, _generate_forecast_no_cache                      *)
(***************************************************************************)
\* upper_bound as a numerator over 200 * den
secondary_upper_bound(ys) ==
    LET Q1 == Quantile100(ys, 25)
        Q3 == Quantile100(ys, 75)
        iqr_upper    == 2 * Q3 + 5 * (Q3 - Q1)
        median_upper == 2 * 4 * Median100(ys)
    IN  IF iqr_upper > 0 THEN Min2(iqr_upper, median_upper) ELSE median_upper

secondary_cap(df) ==
    LET ys == Col(df)
        ub == secondary_upper_bound(ys)
    IN  IF /\ Len(ys) > 30
           /\ Median100(ys) > 0
           /\ \E i \in 1..Len(ys) : 200 * ys[i] > ub
        THEN Frame(df.rows, Clip(ys, 200, ub), 200 * df.den)
        ELSE df

(***************************************************************************)
(* clean_and_forecast: reindex, distribution-shape cap, log decision       *)
(***************************************************************************)
\* df.set_index('ds').reindex(date_range(min, max), fill_value=0)
reindex(df) ==
    LET lo == df.rows[1].ds
        hi == df.rows[Len(df.rows)].ds
        At(d) == IF d - lo + 1 <= Len(df.rows) /\ df.rows[d - lo + 1].ds = d
                 THEN df.rows[d - lo + 1].y
                 ELSE IF \E i \in 1..Len(df.rows) : df.rows[i].ds = d
                 THEN df.rows[CHOOSE i \in 1..Len(df.rows) : df.rows[i].ds = d].y
                 ELSE 0
    IN  [rows |-> Eager([i \in 1..(hi - lo + 1) |->
                            [ds |-> lo + i - 1, y |-> At(lo + i - 1)]]),
         den  |-> df.den]

\* mutant of data_quality_branch: the maximum is used in place of q95
data_quality_branch_max(ys) ==
    /\ Quantile100(ys, 100) > 20 * Median100(ys)
    /\ Median100(ys) > 0

\* q95 > 20 * median and median > 0
data_quality_branch(ys) ==
    /\ Quantile100(ys, 95) > 20 * Median100(ys)
    /\ Median100(ys) > 0

\* cap_value = min(q90 * 5, q98)   (numerator over 100 * den)
cap_value(ys) == Min2(5 * Quantile100(ys, 90), Quantile100(ys, 98))

\* upper_bound = Q3 + 2.0 * IQR    (numerator over 100 * den)
upper_bound(ys) ==
    LET Q1 == Quantile100(ys, 25)
        Q3 == Quantile100(ys, 75)
    IN  Q3 + 2 * (Q3 - Q1)

\* mutant of capped_column: the arguments of np.where are swapped
capped_column_swapped(ys) ==
    IF data_quality_branch(ys)
    THEN Eager([i \in 1..Len(ys) |->
                  IF 100 * ys[i] > cap_value(ys) THEN 100 * ys[i] ELSE cap_value(ys)])
    ELSE Clip(ys, 100, upper_bound(ys))

\* the 'y' column after the cap, as numerators over 100 * den
capped_column(ys) ==
    IF data_quality_branch(ys)
    THEN \* np.where(y > cap_value, cap_value, y)
         Eager([i \in 1..Len(ys) |->
                  IF 100 * ys[i] > cap_value(ys) THEN cap_value(ys) ELSE 100 * ys[i]])
    ELSE \* np.clip(y, 0, upper_bound)
         Clip(ys, 100, upper_bound(ys))

distribution_cap(df) == Frame(df.rows, capped_column(Col(df)), 100 * df.den)

\* df['y'].max() > 1000
use_log(df) == SeqMax(Col(df)) > 1000 * df.den

(***************************************************************************)
(* Model configuration, clean_and_forecast lines 101-129                   *)
(***************************************************************************)
\* mutant of add_seasonality: the thresholds are inclusive
add_seasonality_inclusive(n) ==
    (IF n >= 60 THEN <<[name |-> "monthly", period |-> 3050, fourier_order |-> 6]>>
     ELSE <<>>)
    \o (IF n >= 120 THEN <<[name |-> "quarterly", period |-> 9125, fourier_order |-> 4]>>
        ELSE <<>>)
    \o (IF n >= 180 THEN <<[name |-> "biannual", period |-> 18250, fourier_order |-> 3],
                           [name |-> "weekly_detailed", period |-> 700, fourier_order |-> 4]>>
        ELSE <<>>)

\* period in hundredths of a day
add_seasonality(n) ==
    (IF n > 60 THEN <<[name |-> "monthly", period |-> 3050, fourier_order |-> 6]>>
     ELSE <<>>)
    \o (IF n > 120 THEN <<[name |-> "quarterly", period |-> 9125, fourier_order |-> 4]>>
        ELSE <<>>)
    \o (IF n > 180 THEN <<[name |-> "biannual", period |-> 18250, fourier_order |-> 3],
                          [name |-> "weekly_detailed", period |-> 700, fourier_order |-> 4]>>
        ELSE <<>>)

\* Prophet(...) plus the add_seasonality calls, for a frame of n days;
\* prior scales and interval width in hundredths
Prophet(n) ==
    [weekly_seasonality      |-> TRUE,
     yearly_seasonality      |-> n > 300,
     daily_seasonality       |-> FALSE,
     interval_width          |-> 90,
     changepoint_prior_scale |-> 8,
     seasonality_mode        |-> "additive",
     seasonality_prior_scale |-> 1500,
     holidays_prior_scale    |-> 1000,
     seasonalities           |-> add_seasonality(n)]

(***************************************************************************)
(* Live recalibration of MAPE, clean_and_forecast lines 149-237            *)
(***************************************************************************)
\* mape = 11.9
default_mape == Rat(119, 10)

\* sb.table('events')...gte('timestamp', fourteen_days_ago): the rows of the
\* last 14 days
recent_events(events, now) == SelectSeq(events, LAMBDA e : e.timestamp >= now - 14)

\* actual_df.groupby('ds')['count'].sum(): one row per day that has events
daily_actuals(rows) ==
    LET days == {rows[i].timestamp : i \in 1..Len(rows)}
        Sum(d) == SumSeq([i \in 1..Len(rows) |->
                             IF rows[i].timestamp = d THEN rows[i].count ELSE 0])
        sorted == Eager([k \in 1..Cardinality(days) |->
                      CHOOSE x \in days : Cardinality({z \in days : z < x}) = k - 1])
    IN  Eager([i \in 1..Len(sorted) |-> [ds |-> sorted[i], actual |-> Sum(sorted[i])]])

\* the stored forecasts (at most 10, newest first) that have a non-empty
\* 'future' covering part of the evaluation period
recent_forecasts(forecasts, actuals) ==
    LET first10 == SubSeq(forecasts, 1, Min2(10, Len(forecasts)))
        lo == actuals[1].ds
        hi == actuals[Len(actuals)].ds
        Covers(f) ==
            /\ f.future # <<>>
            /\ LET dss == {f.future[i].ds : i \in 1..Len(f.future)}
               IN  /\ SetMin(dss) <= hi
                   /\ SetMax(dss) >= lo
    IN  SelectSeq(first10, Covers)

\* the percentage errors of the days that have a prediction, with both the
\* prediction and the actual positive
comparison_data(future_data, actuals) ==
    LET Matches(a) == SelectSeq(future_data, LAMBDA p : p.ds = a.ds)
        Comparable(a) ==
            /\ Matches(a) # <<>>
            /\ Matches(a)[1].yhat > 0
            /\ a.actual > 0
        kept == SelectSeq(actuals, Comparable)
    IN  Eager([i \in 1..Len(kept) |->
            Rat(Abs(kept[i].actual - Matches(kept[i])[1].yhat), kept[i].actual)])

\* np.median
np_median(errs) ==
    LET s == SortSeq(errs, RatLt)
        n == Len(s)
    IN  IF n % 2 = 1 THEN s[(n + 1) \div 2]
        ELSE LET t == RatAdd(s[n \div 2], s[(n \div 2) + 1])
             IN  Rat(t.num, 2 * t.den)

\* np.mean
np_mean(errs) ==
    LET t == RatSum(errs)
    IN  Rat(t.num, Len(errs) * t.den)

\* mutant of reasonable_errors: the errors above 200% are kept
reasonable_errors_unfiltered(errs) == errs

\* reasonable_errors = [err for err in percentage_errors if err <= 2.0]
reasonable_errors(errs) == SelectSeq(errs, LAMBDA e : RatLe(e, Rat(2, 1)))

\* mutant of mape_from_errors: two comparison days are enough
mape_from_errors_two_days(errs) ==
    IF Len(errs) >= 2 /\ reasonable_errors(errs) # <<>>
    THEN LET r == reasonable_errors(errs)
             m == IF Len(r) >= 5 THEN np_median(r) ELSE np_mean(r)
         IN  Rat(100 * m.num, m.den)
    ELSE default_mape

\* lines 207-227: the MAPE from the comparison data, or the default
mape_from_errors(errs) ==
    IF Len(errs) >= 3 /\ reasonable_errors(errs) # <<>>
    THEN LET r == reasonable_errors(errs)
             m == IF Len(r) >= 5 THEN np_median(r) ELSE np_mean(r)
         IN  Rat(100 * m.num, m.den)
    ELSE default_mape

\* the percentage errors the live recalibration compares (<<>> when a store
\* answer is empty or no stored forecast overlaps)
live_errors(sb, now) ==
    LET rows == recent_events(sb.events, now)
    IN  IF rows = <<>> \/ sb.forecasts = <<>> THEN <<>>
        ELSE LET actuals == daily_actuals(rows)
                 recent  == recent_forecasts(sb.forecasts, actuals)
             IN  IF recent = <<>> THEN <<>>
                 ELSE comparison_data(recent[1].future, actuals)

\* the whole try block; any exception keeps the default
live_mape(sb, now) ==
    IF ~sb.live_ok THEN default_mape
    ELSE mape_from_errors(live_errors(sb, now))

(***************************************************************************)
(* State                                                                   *)
(***************************************************************************)
VARIABLES
    sb,               \* the Supabase project: reachability and table contents
    prophet,          \* how the external model behaves: outcome and prediction
    memory,           \* the joblib cache: whether clear() works
    now,              \* today's day number
    pc,               \* "idle" before the request, "done" after it
    endpoint,         \* the route that served the request
    cache_cleared,    \* memory.clear() has succeeded
    daily,            \* the frame after daily aggregation
    scanned,          \* the frame after the contamination scan
    reindexed,        \* the frame the distribution-shape cap is applied to
    cleaned,          \* the frame after the distribution-shape cap
    log_transform,    \* use_log
    model_config,     \* <<the configured model>>, or <<>> when none was built
    fit_calls,        \* number of model.fit calls made by the request
    forecast_result,  \* <<the dict the generator returned>>, or <<>> for {}
    response          \* what the caller receives

vars == <<sb, prophet, memory, now, pc, endpoint, cache_cleared, daily, scanned,
          reindexed, cleaned, log_transform, model_config, fit_calls,
          forecast_result, response>>

env_vars == <<sb, prophet, memory, now>>

NoFrame == [rows |-> <<>>, den |-> 1]

(***************************************************************************)
(* clean_and_forecast                                                      *)
(***************************************************************************)
\* float(df['y'].mean() if len(df) > 0 else 100)
mean_y(df) ==
    IF Len(df.rows) > 0 THEN Rat(SumSeq(Col(df)), Len(df.rows) * df.den)
    ELSE Rat(100, 1)

\* lines 49-56: the result for fewer than 21 days
insufficient_data_result(df) ==
    [forecast |-> mean_y(df), mape |-> Rat(50, 1), future |-> <<>>]

\* model.predict over days_to_forecast days from today; prophet.yhat stands
\* for the prediction after the inverse transform (the interval columns are
\* left out)
predict(days_to_forecast) ==
    Eager([i \in 1..days_to_forecast |-> [ds |-> now + i - 1, yhat |-> prophet.yhat]])

\* float(forecast['yhat'].iloc[-days_to_forecast:].mean())
mean_yhat(future) ==
    Rat(SumSeq([i \in 1..Len(future) |-> future[i].yhat]), Len(future))

\* mutant of clean_and_forecast: the guard is len(df) < 20
clean_and_forecast_below_20(df, days_to_forecast) ==
    IF Len(df.rows) < 20
    THEN [raised |-> FALSE, result |-> <<insufficient_data_result(df)>>,
          reindexed |-> NoFrame, cleaned |-> NoFrame, log_transform |-> FALSE,
          model_config |-> <<>>, fit_calls |-> 0]
    ELSE LET re  == reindex(df)
             cl  == distribution_cap(re)
             fit == [raised |-> TRUE, result |-> <<>>,
                     reindexed |-> re, cleaned |-> cl, log_transform |-> use_log(cl),
                     model_config |-> <<Prophet(Len(cl.rows))>>, fit_calls |-> 1]
         IN  IF prophet.outcome \in {"fit_raises", "predict_raises"} THEN fit
             ELSE LET future == predict(days_to_forecast)
                  IN  [fit EXCEPT
                         !.raised = FALSE,
                         !.result = <<[forecast    |-> mean_yhat(future),
                                       mape        |-> live_mape(sb, now),
                                       future      |-> future,
                                       dataPoints  |-> Len(cl.rows),
                                       generatedAt |-> now]>>]

\* what one call does: raised is TRUE when an exception leaves the function
clean_and_forecast(df, days_to_forecast) ==
    IF Len(df.rows) < 21
    THEN [raised |-> FALSE, result |-> <<insufficient_data_result(df)>>,
          reindexed |-> NoFrame, cleaned |-> NoFrame, log_transform |-> FALSE,
          model_config |-> <<>>, fit_calls |-> 0]
    ELSE LET re  == reindex(df)
             cl  == distribution_cap(re)
             fit == [raised |-> TRUE, result |-> <<>>,
                     reindexed |-> re, cleaned |-> cl, log_transform |-> use_log(cl),
                     model_config |-> <<Prophet(Len(cl.rows))>>, fit_calls |-> 1]
         IN  IF prophet.outcome \in {"fit_raises", "predict_raises"} THEN fit
             ELSE LET future == predict(days_to_forecast)
                  IN  [fit EXCEPT
                         !.raised = FALSE,
                         !.result = <<[forecast    |-> mean_yhat(future),
                                       mape        |-> live_mape(sb, now),
                                       future      |-> future,
                                       dataPoints  |-> Len(cl.rows),
                                       generatedAt |-> now]>>]

(***************************************************************************)
(* generate_forecast_with_metrics and _generate_forecast_no_cache          *)
(***************************************************************************)
\* return {}, None
NoForecast(df, sc) ==
    [raised |-> FALSE, result |-> <<>>, mape |-> <<>>, daily |-> df, scanned |-> sc,
     reindexed |-> NoFrame, cleaned |-> NoFrame, log_transform |-> FALSE,
     model_config |-> <<>>, fit_calls |-> 0]

\* mutant of TryForecast: no try/except around clean_and_forecast
TryForecast_no_except(df, sc, frame, days_to_forecast) ==
    LET r == clean_and_forecast(frame, days_to_forecast)
    IN  [raised |-> r.raised,
         result |-> r.result,
         mape   |-> IF r.raised THEN <<>> ELSE <<r.result[1].mape>>,
         daily  |-> df, scanned |-> sc,
         reindexed |-> r.reindexed, cleaned |-> r.cleaned,
         log_transform |-> r.log_transform,
         model_config |-> r.model_config, fit_calls |-> r.fit_calls]

\* the try block around clean_and_forecast: return result, result['mape'], or
\* {}, None when it raised
TryForecast(df, sc, frame, days_to_forecast) ==
    LET r == clean_and_forecast(frame, days_to_forecast)
    IN  [raised |-> FALSE,
         result |-> r.result,
         mape   |-> IF r.raised THEN <<>> ELSE <<r.result[1].mape>>,
         daily  |-> df, scanned |-> sc,
         reindexed |-> r.reindexed, cleaned |-> r.cleaned,
         log_transform |-> r.log_transform,
         model_config |-> r.model_config, fit_calls |-> r.fit_calls]

generate_forecast_with_metrics ==
    IF ~sb.client_ok
    THEN [NoForecast(NoFrame, NoFrame) EXCEPT !.raised = TRUE]
    ELSE IF ~sb.events_ok \/ sb.events = <<>>
    THEN NoForecast(NoFrame, NoFrame)
    ELSE LET df == resample_sum(sb.events)
         IN  TryForecast(df, df, df, FORECAST_HORIZON_DAYS)

_generate_forecast_no_cache ==
    IF ~sb.client_ok
    THEN [NoForecast(NoFrame, NoFrame) EXCEPT !.raised = TRUE]
    ELSE IF ~sb.events_ok \/ sb.events = <<>>
    THEN NoForecast(NoFrame, NoFrame)
    ELSE LET df == resample_sum(sb.events)
             sc == contamination_scan(df)
         IN  TryForecast(df, sc, secondary_cap(sc), DAYS_TO_FORECAST)

(***************************************************************************)
(* The HTTP handlers                                                       *)
(***************************************************************************)
\* lines 323-335 and 381-394
fallback_result(extra) ==
    [status_code |-> 200,
     forecast    |-> Rat(100, 1),
     mape        |-> Rat(25, 1),
     future      |-> <<>>,
     generatedAt |-> now,
     metadata    |-> [algorithm |-> "prophet", tuning |-> "fallback",
                      days_forecast |-> 0, status |-> "fallback_used"] @@ extra]

\* "optimized" if mape and mape < 20 else "default"
tuning(mape) ==
    IF mape # <<>> /\ mape[1].num # 0 /\ RatLt(mape[1], Rat(20, 1))
    THEN "optimized" ELSE "default"

\* lines 337-351 and 396-411
success_result(result, mape, extra) ==
    [status_code |-> 200,
     forecast    |-> result.forecast,
     mape        |-> result.mape,
     future      |-> result.future,
     generatedAt |-> now,
     metadata    |-> [algorithm |-> "prophet", tuning |-> tuning(mape),
                      days_forecast |-> Len(result.future),
                      status |-> "success"] @@ extra]

\* raise HTTPException(status_code=500, ...)
http_500 == [status_code |-> 500]

\* the body of get_forecast and of get_fresh_forecast after generation
respond(g, extra) ==
    IF g.raised THEN http_500
    ELSE IF g.result = <<>> \/ g.result[1].future = <<>> THEN fallback_result(extra)
    ELSE success_result(g.result[1], g.mape, extra)

Serve(route, g, extra, cleared) ==
    /\ pc = "idle"
    /\ pc' = "done"
    /\ endpoint' = route
    /\ cache_cleared' = cleared
    /\ daily' = g.daily
    /\ scanned' = g.scanned
    /\ reindexed' = g.reindexed
    /\ cleaned' = g.cleaned
    /\ log_transform' = g.log_transform
    /\ model_config' = g.model_config
    /\ fit_calls' = g.fit_calls
    /\ forecast_result' = g.result
    /\ response' = respond(g, extra)
    /\ UNCHANGED env_vars

\* GET /forecast
get_forecast ==
    Serve("GET /forecast", generate_forecast_with_metrics, <<>>, FALSE)

\* POST /forecast: return await get_forecast()
trigger_forecast ==
    Serve("POST /forecast", generate_forecast_with_metrics, <<>>, FALSE)

\* POST /forecast/fresh
get_fresh_forecast ==
    Serve("POST /forecast/fresh", _generate_forecast_no_cache,
          [cache_bypassed |-> TRUE], memory.clear_ok)

Next == get_forecast \/ trigger_forecast \/ get_fresh_forecast

(***************************************************************************)
(* Initial states: the service is idle; the environment (store contents,   *)
(* model behaviour, date) is drawn from a bounded family.                  *)
(***************************************************************************)
Const(v, n) == Eager([i \in 1..n |-> v])

\* event rows whose daily totals are ys, for the days 1..Len(ys): a day with
\* two or more events has two rows, an inner day without events has none
RowsFor(ys) ==
    LET Row(d, c) == [timestamp |-> d, count |-> c]
        Day(i) == IF ys[i] = 0 /\ 1 < i /\ i < Len(ys) THEN <<>>
                  ELSE IF ys[i] >= 2 THEN <<Row(i, ys[i] - 1), Row(i, 1)>>
                  ELSE <<Row(i, ys[i])>>
        RECURSIVE Go(_, _)
        Go(lo, hi) == IF lo > hi THEN <<>>
                      ELSE IF lo = hi THEN Day(lo)
                      ELSE Go(lo, (lo + hi) \div 2) \o Go(((lo + hi) \div 2) + 1, hi)
    IN  Go(1, Len(ys))

\* a stored forecast predicting ps for the days d0+1 .. d0+Len(ps)
StoredForecast(generated_at, d0, ps) ==
    [generated_at |-> generated_at,
     future |-> Eager([i \in 1..Len(ps) |-> [ds |-> d0 + i, yhat |-> ps[i]]])]

Start(e) ==
    /\ sb = e.sb
    /\ prophet = e.prophet
    /\ memory = e.memory
    /\ now = e.now
    /\ pc = "idle"
    /\ endpoint = "none"
    /\ cache_cleared = FALSE
    /\ daily = NoFrame
    /\ scanned = NoFrame
    /\ reindexed = NoFrame
    /\ cleaned = NoFrame
    /\ log_transform = FALSE
    /\ model_config = <<>>
    /\ fit_calls = 0
    /\ forecast_result = <<>>
    /\ response = [status_code |-> 0]

AllOk == [client_ok |-> TRUE, events_ok |-> TRUE, live_ok |-> TRUE, clear_ok |-> TRUE]

\* everything works, or exactly one collaborator fails
Faults ==
    {AllOk,
     [AllOk EXCEPT !.client_ok = FALSE],
     [AllOk EXCEPT !.events_ok = FALSE],
     [AllOk EXCEPT !.live_ok = FALSE],
     [AllOk EXCEPT !.clear_ok = FALSE]}

Env(f, events, forecasts, outcome, yhat, today) ==
    [sb |-> [client_ok |-> f.client_ok, events_ok |-> f.events_ok,
             live_ok |-> f.live_ok, events |-> events, forecasts |-> forecasts],
     prophet |-> [outcome |-> outcome, yhat |-> yhat],
     memory |-> [clear_ok |-> f.clear_ok],
     now |-> today]

Outcomes == {"ok", "fit_raises", "predict_raises"}

(***************************************************************************)
(* Spec: the request-level family. Every store outcome, series of          *)
(* 0..MaxDays constant days, every model outcome, stored forecasts present *)
(* or absent.                                                              *)
(***************************************************************************)
MaxDays == 23
MaxStored == 4

BaseCounts == {0, 3, 1500}

YhatValues == {0, 120}

Init ==
    \E f \in Faults, v \in BaseCounts, n \in 0..MaxDays, k \in {0, MaxStored},
       o \in Outcomes, y \in YhatValues :
        Start(Env(f, RowsFor(Const(v, n)),
                  IF k = 0 THEN <<>>
                  ELSE <<StoredForecast(1, n - k, Const(v + 1, k))>>,
                  o, y, n))

Spec == Init /\ [][Next]_vars

(***************************************************************************)
(* SpecConfig: series of every length up to MaxSeriesDays                  *)
(***************************************************************************)
MaxSeriesDays == 185

InitConfig ==
    \E n \in 1..MaxSeriesDays, o \in {"ok", "fit_raises"} :
        Start(Env(AllOk, RowsFor(Const(5, n)), <<>>, o, 120, n))

SpecConfig == InitConfig /\ [][Next]_vars

(***************************************************************************)
(* SpecClean: series of three runs (head, middle, tail) of normal, zero    *)
(* and spike values, for the outlier passes                                *)
(***************************************************************************)
MaxHead == 33
MaxMid == 3
MaxTail == 4

HeadCounts == {0, 4}

MidCounts == {60, 200}

TailCounts == {0, 4, 60}

InitClean ==
    \E a \in HeadCounts, b \in MidCounts, c \in TailCounts,
       n1 \in 1..MaxHead, n2 \in 0..MaxMid, n3 \in 0..MaxTail :
        Start(Env(AllOk, RowsFor(Const(a, n1) \o Const(b, n2) \o Const(c, n3)),
                  <<>>, "ok", 120, n1 + n2 + n3))

SpecClean == InitClean /\ [][Next]_vars

(***************************************************************************)
(* SpecLive: BaseDays days of history followed by up to MaxLiveDays recent *)
(* days, each with an actual count and a stored prediction                 *)
(***************************************************************************)
BaseDays == 21
MaxLiveDays == 6
MaxBehindDays == 3

\* <<actual, predicted>>: a zero actual, a zero prediction, errors of 0%,
\* 50%, 150%, 200% and 300%
Pairs == << <<0, 1>>, <<1, 0>>, <<1, 1>>, <<2, 1>>, <<2, 5>>, <<1, 3>>, <<1, 4>> >>

\* the non-decreasing sequences of k indexes of Pairs, from lo on
RECURSIVE NonDecreasing(_, _)
NonDecreasing(k, lo) ==
    IF k = 0 THEN {<<>>}
    ELSE UNION { { <<j>> \o t : t \in NonDecreasing(k - 1, j) } : j \in lo..Len(Pairs) }

\* where the stored forecast of the recent days sits in the forecasts table
Layouts == {"latest", "behind_newer", "absent", "no_overlap"}

LiveForecasts(layout, ps) ==
    LET covering == StoredForecast(2, BaseDays, ps)
        newer    == StoredForecast(3, BaseDays + Len(ps) + 7, <<9, 9>>)
        unfilled == [generated_at |-> 4, future |-> <<>>]
    IN  CASE layout = "latest"       -> <<covering>>
          [] layout = "behind_newer" -> <<unfilled, newer, covering>>
          [] layout = "absent"       -> <<>>
          [] layout = "no_overlap"   -> <<newer>>

\* days between the last event and the request: none, or more than the 14
\* days the recalibration looks back
Gaps == {0, 15}

InitLive ==
    \E f \in {AllOk, [AllOk EXCEPT !.live_ok = FALSE]}, layout \in Layouts,
       g \in Gaps,
       s \in UNION { NonDecreasing(k, 1) : k \in 0..MaxLiveDays } :
        \* the store failure and the late request are paired with one layout
        \* only; a late request sees none of the recent days, whatever they hold
        /\ (f.live_ok /\ g = 0) \/ layout = "latest"
        /\ f.live_ok \/ g = 0
        /\ g = 0 \/ Len(s) <= 1
        \* behind newer forecasts the stored forecast is selected as when it
        \* is the latest: short runs of recent days are enough there
        /\ layout # "behind_newer" \/ Len(s) <= MaxBehindDays
        /\ Start(Env(f,
                     RowsFor(Const(5, BaseDays)
                             \o Eager([i \in 1..Len(s) |-> Pairs[s[i]][1]])),
                     LiveForecasts(layout, Eager([i \in 1..Len(s) |-> Pairs[s[i]][2]])),
                     "ok", 120, BaseDays + Len(s) + g))

SpecLive == InitLive /\ [][Next]_vars

(***************************************************************************)
(* Properties                                                              *)
(***************************************************************************)
Done == pc = "done"

\* the events query worked and returned no row
EmptyStore == sb.client_ok /\ sb.events_ok /\ sb.events = <<>>

\* the events query worked and returned rows
StoreHasRows == sb.client_ok /\ sb.events_ok /\ sb.events # <<>>

Ok200 == response.status_code = 200

\* the fixed-constant fallback body of the handlers
IsFixedFallback ==
    /\ Ok200
    /\ response.forecast = Rat(100, 1)
    /\ response.mape = Rat(25, 1)
    /\ response.future = <<>>
    /\ response.metadata.status = "fallback_used"

\* C1: when the event store returns no rows, the response is an explicit
\* no-data signal: it carries no fabricated forecast number and its status
\* is not fallback_used.
C1_EmptyStoreIsNoDataSignal ==
    (Done /\ EmptyStore) =>
        /\ Ok200 => response.metadata.status # "fallback_used"
        /\ Ok200 => response.forecast # Rat(100, 1)

\* C2: when the store returns rows but the series handed to the forecast
\* engine has fewer than 21 days, the caller receives the scarce-data result
\* (forecast = mean of the values, mape = 50.0, future = []), not the
\* fixed-constant fallback and not an error.
C2_ScarceDataResultReturned ==
    (Done /\ StoreHasRows /\ Len(scanned.rows) < 21) =>
        /\ Ok200
        /\ response.forecast = mean_y(scanned)
        /\ response.mape = Rat(50, 1)
        /\ response.future = <<>>
        /\ response.metadata.status # "fallback_used"

\* the model was invoked by the request and its fit or predict raised
ModelFailed == fit_calls > 0 /\ prophet.outcome \in {"fit_raises", "predict_raises"}

\* C3: if the model invocation (fit or predict) fails, the request completes
\* with the fixed-constant fallback (forecast 100.0, mape 25.0, future [],
\* status fallback_used); the fit was called once and no partially built
\* result reaches the caller.
C3_ModelFailureGivesFallback ==
    (Done /\ ModelFailed) =>
        /\ IsFixedFallback
        /\ fit_calls = 1
        /\ forecast_result = <<>>
        /\ response.metadata.days_forecast = 0

C3_Witness ==
    /\ Done
    /\ prophet.outcome = "predict_raises"
    /\ fit_calls = 1
    /\ Len(cleaned.rows) >= 21
    /\ IsFixedFallback

(***************************************************************************)
(* Live recalibration (SpecLive)                                           *)
(***************************************************************************)
Succeeded == Done /\ Ok200 /\ response.metadata.status = "success"

\* lo <= r <= hi for a rational r and integers lo, hi
RatWithin(r, lo, hi) == RatLe(Rat(lo, 1), r) /\ RatLe(r, Rat(hi, 1))

\* every MAPE of the request (the generator's and the handler's) is in lo..hi
MapesWithin(lo, hi) ==
    /\ Ok200 => RatWithin(response.mape, lo, hi)
    /\ forecast_result # <<>> => RatWithin(forecast_result[1].mape, lo, hi)

\* C4 (as claimed): the MAPE reported in any result is within [0, 100].
C4_MapeWithin0And100 == Done => MapesWithin(0, 100)

\* C4 (amended): the MAPE reported in any result is within [0, 200]: errors
\* of up to 200% are kept, so their median or mean can reach 200.
C4_MapeWithin0And200 == Done => MapesWithin(0, 200)

C4_Witness ==
    /\ Succeeded
    /\ sb.live_ok
    /\ Len(live_errors(sb, now)) >= 3
    /\ response.mape = Rat(200, 1)

\* the aggregate of the claim: median of five or more errors, mean otherwise
Aggregate(errs) ==
    LET m == IF Len(errs) >= 5 THEN np_median(errs) ELSE np_mean(errs)
    IN  Rat(100 * m.num, m.den)

\* C5: errors above 200% are dropped first; the result replaces the default
\* MAPE only if at least 3 comparable days remain after the drop, and is
\* then the median (5 or more left) or the mean of what is left.
C5_ThresholdCountsKeptErrors ==
    (Succeeded /\ sb.live_ok) =>
        LET kept == reasonable_errors(live_errors(sb, now))
        IN  response.mape = IF Len(kept) >= 3 THEN Aggregate(kept) ELSE default_mape

(***************************************************************************)
(* Seasonal components (SpecConfig)                                        *)
(***************************************************************************)
Configured == Done /\ model_config # <<>>

\* the model of the request has the seasonal component called name
Has(name) ==
    \E i \in 1..Len(model_config[1].seasonalities) :
        model_config[1].seasonalities[i].name = name

\* the length of the frame the model was configured for
SeriesLength == Len(cleaned.rows)

\* C6 (as claimed): 59 days -> no monthly, 60 -> monthly; 119 -> no
\* quarterly, 120 -> quarterly.
C6_BoundariesAt60And120 ==
    Configured =>
        /\ SeriesLength = 59 => ~Has("monthly")
        /\ SeriesLength = 60 => Has("monthly")
        /\ SeriesLength = 119 => ~Has("quarterly")
        /\ SeriesLength = 120 => Has("quarterly")

\* C6 (amended): the components depend on the length alone; 60 days -> no
\* monthly, 61 -> monthly; 120 -> no quarterly, 121 -> quarterly; a component
\* is absent up to its threshold (60, 120) and present at every greater length.
C6_BoundariesAt61And121 ==
    Configured =>
        /\ Has("monthly") <=> SeriesLength > 60
        /\ Has("quarterly") <=> SeriesLength > 120
        /\ \A m \in SeriesLength..MaxSeriesDays :
              \A i \in 1..Len(model_config[1].seasonalities) :
                 \E j \in 1..Len(add_seasonality(m)) :
                    add_seasonality(m)[j] = model_config[1].seasonalities[i]

C6_Witness ==
    /\ Configured
    /\ SeriesLength = 61
    /\ Has("monthly")
    /\ ~Has("quarterly")

(***************************************************************************)
(* Outlier passes (SpecClean)                                              *)
(***************************************************************************)
Fresh == Done /\ endpoint = "POST /forecast/fresh" /\ StoreHasRows

\* the longest run of extreme days at the end of ys, against baseline100
TrailingRun(ys, baseline100) ==
    SetMax({k \in 0..Len(ys) :
               \A i \in (Len(ys) - k + 1)..Len(ys) : ExtremeRatio(ys[i], baseline100)})

\* the number of trailing days the scan looks at
Window(ys) == IF Len(ys) \div 10 = 0 THEN Len(ys) ELSE Min2(7, Len(ys) \div 10)

\* v > 0 for all days but the last 3, 15 * v for the last 3, 33 days or more
ThreeDaySpike(ys) ==
    /\ Len(ys) >= 33
    /\ ys[1] > 0
    /\ \A i \in 1..(Len(ys) - 3) : ys[i] = ys[1]
    /\ \A i \in (Len(ys) - 2)..Len(ys) : ys[i] = 15 * ys[1]

\* C7 (as claimed): the scan removes exactly the maximal run of trailing
\* extreme days (ratio to the baseline > 10 or < 0.1), and no other day.
C7_RemovesWholeTrailingRun ==
    (Fresh /\ historical_baseline(Col(daily)) > 0) =>
        scanned = DropLast(daily, TrailingRun(Col(daily), historical_baseline(Col(daily))))

\* C7 (amended): on a series of more than 7 days with a positive baseline the
\* scan removes the run of trailing extreme days, but looks no further back
\* than the last min(7, len // 10) days (the whole series when len < 10); a
\* series of 7 days or fewer, or with a baseline of 0, is left as it is. When
\* 30 or more days at one level are followed by 3 days at 15 times that level,
\* exactly those 3 days are removed.
C7_RemovesTrailingRunInWindow ==
    Fresh =>
        LET ys == Col(daily)
            b  == historical_baseline(ys)
        IN  /\ scanned = IF Len(ys) > 7 /\ b > 0
                         THEN DropLast(daily, Min2(TrailingRun(ys, b), Window(ys)))
                         ELSE daily
            /\ ThreeDaySpike(ys) => scanned = DropLast(daily, 3)

C7_Witness ==
    /\ Fresh
    /\ ThreeDaySpike(Col(daily))
    /\ Len(scanned.rows) = Len(daily.rows) - 3
    /\ fit_calls = 1

\* the distribution-shape cap ran in this request
Capped == Done /\ Len(reindexed.rows) >= 21

NonNegative(df) == \A i \in 1..Len(df.rows) : df.rows[i].y >= 0

\* C8: on non-negative values the distribution-shape cap keeps the length and
\* the dates, raises no value and yields no negative value.
C8_CapClampsOnly ==
    (Capped /\ NonNegative(reindexed)) =>
        /\ Len(cleaned.rows) = Len(reindexed.rows)
        /\ \A i \in 1..Len(reindexed.rows) :
              /\ cleaned.rows[i].ds = reindexed.rows[i].ds
              /\ cleaned.rows[i].y * reindexed.den <= reindexed.rows[i].y * cleaned.den
              /\ cleaned.rows[i].y >= 0

\* some value was lowered by the cap
Lowered ==
    \E i \in 1..Len(reindexed.rows) :
        cleaned.rows[i].y * reindexed.den < reindexed.rows[i].y * cleaned.den

C8_Witness ==
    /\ Capped
    /\ NonNegative(reindexed)
    /\ data_quality_branch(Col(reindexed))
    /\ Lowered

\* C9: each pass is idempotent: the scan removes nothing from its own
\* output, the cap changes nothing in its own output.
C9_PassesIdempotent ==
    /\ Fresh => contamination_scan(scanned) = scanned
    /\ Capped => distribution_cap(cleaned) = cleaned

\* exactly one day is 50 times the median; every other day is within a factor
\* of 10 of the median
OneSpike(ys) ==
    /\ Len(ys) >= 21
    /\ Median100(ys) > 0
    /\ \E i \in 1..Len(ys) :
          /\ 100 * ys[i] = 50 * Median100(ys)
          /\ \A j \in (1..Len(ys)) \ {i} : ~ExtremeRatio(ys[j], Median100(ys))

\* the value of the 50x day after the cap equals bound100 / 100
SpikeCappedAt(bound100) ==
    \A i \in 1..Len(reindexed.rows) :
        100 * reindexed.rows[i].y = 50 * Median100(Col(reindexed)) =>
            cleaned.rows[i].y * 100 * reindexed.den = bound100 * cleaned.den

\* C10 (as claimed): with one day at 50x the median among normal days, the
\* cap takes the data-quality branch and that day becomes min(5 * p90, p98).
C10_SpikeTakesDataQualityBranch ==
    (Capped /\ OneSpike(Col(reindexed))) =>
        /\ data_quality_branch(Col(reindexed))
        /\ SpikeCappedAt(cap_value(Col(reindexed)))

\* C10 (amended): with one day at 50x the median among normal days of a
\* series of 21 days or more, q95 does not exceed 20 x median, the cap takes
\* the IQR branch and that day becomes min(its value, Q3 + 2.0 * IQR).
C10_SpikeTakesIqrBranch ==
    (Capped /\ OneSpike(Col(reindexed))) =>
        /\ ~data_quality_branch(Col(reindexed))
        /\ Quantile100(Col(reindexed), 95) <= 20 * Median100(Col(reindexed))
        /\ SpikeCappedAt(Min2(50 * Median100(Col(reindexed)),
                              upper_bound(Col(reindexed))))

C10_Witness ==
    /\ Capped
    /\ OneSpike(Col(reindexed))
    /\ Lowered

(***************************************************************************)
(* The engine on a short series (SpecClean)                                *)
(***************************************************************************)
\* the frame handed to clean_and_forecast had fewer than 21 days (a frame of
\* 30 days or fewer is handed over as the scan left it)
ShortSeries == Done /\ StoreHasRows /\ Len(scanned.rows) < 21

\* C11: for a series of fewer than 21 days (20 in particular) the engine
\* returns future = [], mape = 50.0 and forecast = the mean of the values,
\* builds and fits no model, and raises nothing.
C11_ShortSeriesEngineResult ==
    ShortSeries =>
        /\ forecast_result # <<>>
        /\ forecast_result[1].future = <<>>
        /\ forecast_result[1].mape = Rat(50, 1)
        /\ forecast_result[1].forecast.num * Len(scanned.rows) * scanned.den
              = SumSeq(Col(scanned)) * forecast_result[1].forecast.den
        /\ DOMAIN forecast_result[1] = {"forecast", "mape", "future"}
        /\ fit_calls = 0
        /\ model_config = <<>>
        /\ response.status_code = 200

C11_Witness ==
    /\ ShortSeries
    /\ Len(scanned.rows) = 20
    /\ \E i \in 1..20 : scanned.rows[i].y # scanned.rows[1].y
    /\ forecast_result # <<>>
    /\ forecast_result[1].mape = Rat(50, 1)
    /\ fit_calls = 0

(***************************************************************************)
(* The tags of a successful response (SpecLive)                            *)
(***************************************************************************)
\* the response carries a generated forecast
ForecastReturned == Done /\ Ok200 /\ response.future # <<>>

\* C12: a successful response is tagged status = success, and tuning is
\* "optimized" exactly when its reported mape is < 20, "default" otherwise,
\* for every mape the pipeline can report, 0 included.
C12_OptimizedIffMapeBelow20 ==
    ForecastReturned =>
        /\ response.metadata.status = "success"
        /\ response.metadata.tuning =
              IF RatLt(response.mape, Rat(20, 1)) THEN "optimized" ELSE "default"

(***************************************************************************)
(* The MAPE when recalibration gives no estimate (SpecLive)                *)
(***************************************************************************)
\* a model was fitted and predicted in this request
Forecasted == Done /\ fit_calls = 1 /\ prophet.outcome = "ok"

\* the recalibration has nothing to trust: the store call failed, or fewer
\* than 3 days are comparable (none when there are no recent actuals or no
\* overlapping stored forecast), or every error is above 200%
NoEstimate ==
    \/ ~sb.live_ok
    \/ Len(live_errors(sb, now)) < 3
    \/ reasonable_errors(live_errors(sb, now)) = <<>>

\* m = min(scale * stdDev / mean, 40) for the values ys, with the standard
\* deviation taken over n - ddof; stated on squares
IsCappedCv(m, ys, scale, ddof) ==
    LET n  == Len(ys)
        S  == SumSeq(ys)
        Q  == SumSeq([i \in 1..n |-> ys[i] * ys[i]])
        \* CV^2, then (scale * CV)^2, both in lowest terms
        cv2 == Rat(n * (n * Q - S * S), (n - ddof) * S * S)
        k   == Rat(scale * scale, cv2.den)
        sq  == [num |-> cv2.num * k.num, den |-> k.den]
    IN  /\ m.num >= 0
        /\ \/ m = Rat(40, 1) /\ sq.num \div sq.den >= 1600
           \/ RatLe(m, Rat(40, 1)) /\ m.num * m.num = sq.num /\ m.den * m.den = sq.den

\* m is the fallback metric of the claim for the frame df: the capped
\* coefficient of variation (as a ratio or as a percentage, sample or
\* population deviation), or a fixed constant when the mean is not positive
IsFallbackMetric(m, df) ==
    IF SumSeq(Col(df)) > 0
    THEN \E scale \in {1, 100}, ddof \in {0, 1} : IsCappedCv(m, Col(df), scale, ddof)
    ELSE m \in {Rat(119, 10), Rat(25, 1)}

\* C13 (as claimed): when live recalibration yields no trustworthy estimate
\* the forecast is still returned and its MAPE is the coefficient of
\* variation of the cleaned series capped at 40, the fixed constant being used
\* only when the series mean is <= 0.
C13_NoEstimateGivesCappedCv ==
    (Forecasted /\ NoEstimate) =>
        /\ ForecastReturned
        /\ IsFallbackMetric(response.mape, cleaned)

\* C13 (amended): when live recalibration yields no estimate (the store call
\* fails, no recent actuals, no overlapping stored forecast, fewer than 3
\* comparable days, or every error above 200%) the forecast is still returned
\* as a success and its MAPE is the fixed constant 11.9, whatever the
\* coefficient of variation of the cleaned series.
C13_NoEstimateGivesDefault ==
    (Forecasted /\ NoEstimate) =>
        /\ ForecastReturned
        /\ response.metadata.status = "success"
        /\ response.mape = Rat(119, 10)
        /\ forecast_result[1].mape = Rat(119, 10)

C13_Witness ==
    /\ Forecasted
    /\ sb.live_ok
    /\ Len(live_errors(sb, now)) = 2
    /\ reasonable_errors(live_errors(sb, now)) # <<>>
    /\ ForecastReturned
    /\ response.mape = Rat(119, 10)
    /\ ~IsFallbackMetric(response.mape, cleaned)

=============================================================================
